---- MODULE Spec2Model ----
(***************************************************************************)
(* Model of the Kobo upload tool's data layer (data_utils.py): identifier  *)
(* normalization and resolution, survey flattening and the row -> XML      *)
(* encoder.                                                                *)
(*                                                                         *)
(* Text.  A Python str is modelled as a finite sequence of text atoms.  An *)
(* atom is a TLA+ string standing for that literal piece of text.  The     *)
(* characters the code looks at one by one (space, tab, comma, slash,      *)
(* underscore) are always atoms of their own, and the literal "uuid:" is   *)
(* one atom, so that strip, split, startswith and replace are computed on  *)
(* the sequence exactly as Python computes them on the characters.         *)
(*                                                                         *)
(* Values.  A dynamically typed Python value (a DataFrame cell, an         *)
(* Optional[str]) is a record [kind, s]: kind "str" with text s, kind      *)
(* "nan" (pandas' missing value), kind "none" (Python None), kind "int"    *)
(* (a JSON number, s its digits).                                          *)
(***************************************************************************)
EXTENDS Naturals, Sequences, FiniteSets, TLC

VARIABLES
    t, n1, n2, np,                 \* ensure_uuid_prefix: argument and results
    row, id_map, deprecated_id,    \* process_submissions: current row, known records, target id
    survey, pos, stack, cols,      \* flatten_survey: input, loop position, locals
    headers, schema_map,           \* build_template_df: template columns, schema map
    xml, calls,                    \* row_to_xml: last document, number of calls so far
    df, info,                      \* handle_file_upload: uploaded table, normalization flags
    idx, existing_ids, results, posted   \* process_submissions: loop index, known IDs,
                                   \* result records, documents handed to post_submission

normVars == <<t, n1, n2, np>>
idVars == <<row, id_map, deprecated_id>>
flatVars == <<survey, pos, stack, cols>>
tmplVars == <<headers, schema_map>>
xmlVars == <<xml, calls>>
editVars == <<df, info, idx, existing_ids, results, posted>>
vars == <<t, n1, n2, np, row, id_map, deprecated_id, survey, pos, stack, cols,
          headers, schema_map, xml, calls, df, info, idx, existing_ids, results, posted>>

----------------------------------------------------------------------------
(* Values *)

StrV(s) == [kind |-> "str", s |-> s]
NaN == [kind |-> "nan", s |-> <<>>]
None == [kind |-> "none", s |-> <<>>]
IntV(digits) == [kind |-> "int", s |-> digits]
Unset == [kind |-> "unset", s |-> <<>>]

\* pd.notna(v): neither NaN nor None
NotNa(v) == v.kind \notin {"nan", "none"}

\* Python truthiness of a value: None and "" are falsy, NaN is truthy
IsTruthy(v) ==
    CASE v.kind = "none" -> FALSE
      [] v.kind = "str" -> v.s # <<>>
      [] v.kind = "int" -> v.s # <<"0">>
      [] OTHER -> TRUE

\* str(v)
PyStr(v) ==
    CASE v.kind = "nan" -> <<"nan">>
      [] v.kind = "none" -> <<"None">>
      [] OTHER -> v.s

----------------------------------------------------------------------------
(* Text *)

Whitespace == {" ", "\t"}
UuidPrefix == <<"uuid:">>

RECURSIVE LStrip(_)
LStrip(s) ==
    IF s # <<>> /\ Head(s) \in Whitespace THEN LStrip(Tail(s)) ELSE s

RECURSIVE RStrip(_)
RStrip(s) ==
    IF s # <<>> /\ s[Len(s)] \in Whitespace
    THEN RStrip(SubSeq(s, 1, Len(s) - 1))
    ELSE s

\* str.strip()
Strip(s) == RStrip(LStrip(s))

\* str.startswith(p)
StartsWith(s, p) == Len(s) >= Len(p) /\ SubSeq(s, 1, Len(p)) = p

----------------------------------------------------------------------------
(* ID handling *)

\* a variant that prefixes without looking for an existing prefix
EnsureUuidPrefix_AlwaysPrefix(x) ==
    IF ~IsTruthy(x) THEN x ELSE StrV(UuidPrefix \o Strip(PyStr(x)))

\* ensure_uuid_prefix(x)
EnsureUuidPrefix(x) ==
    IF ~IsTruthy(x)
    THEN x
    ELSE LET s == Strip(PyStr(x))
         IN  IF StartsWith(s, UuidPrefix) THEN StrV(s) ELSE StrV(UuidPrefix \o s)


\* build_existing_id_set and get_submission_id read two columns of the
\* known-records table: "_id" (field id) and "meta/instanceID" (field
\* instanceID).  A table is [present, recs]: present = FALSE is id_map_df = None.
NoTable == [present |-> FALSE, recs |-> <<>>]
Table(recs) == [present |-> TRUE, recs |-> recs]

ColInstanceID == <<"meta", "/", "instanceID">>
ColUuid == <<"_", "uuid">>
ColId == <<"_", "id">>

\* row.get(col): the cell, or None when the row has no such column
RowGet(r, col) == IF col \in DOMAIN r THEN r[col] ELSE None

\* row.get(col, default)
RowGetDefault(r, col, default) == IF col \in DOMAIN r THEN r[col] ELSE default

\* id_map_df[id_map_df["_id"] == row["_id"]]: pandas compares element-wise, so a
\* str never equals an int and NaN/None equal nothing
Matches(recs, id) ==
    SelectSeq(recs, LAMBDA rec : NotNa(rec.id) /\ NotNa(id) /\ rec.id = id)

\* get_submission_id(row, id_map_df)
GetSubmissionId(r, idm) ==
    IF NotNa(RowGet(r, ColInstanceID))
    THEN EnsureUuidPrefix(StrV(Strip(PyStr(RowGet(r, ColInstanceID)))))
    ELSE IF NotNa(RowGet(r, ColUuid))
    THEN EnsureUuidPrefix(StrV(Strip(PyStr(RowGet(r, ColUuid)))))
    ELSE IF NotNa(RowGet(r, ColId)) /\ idm.present /\ idm.recs # <<>>
            /\ Len(Matches(idm.recs, r[ColId])) = 1
    THEN EnsureUuidPrefix(StrV(PyStr(Matches(idm.recs, r[ColId])[1].instanceID)))
    ELSE None

----------------------------------------------------------------------------
(* Schema processing *)

\* A survey node q is [type, name, list]: type is q.get("type", ""), name is
\* q.get("name") and list is q.get("select_from_list_name"), each None when
\* the key is missing.
Node(type, name) == [type |-> type, name |-> name, list |-> None]
SelectNode(name, list) == [type |-> "select_multiple", name |-> name, list |-> list]

GroupMarkers == {"begin_group", "end_group", "begin_repeat", "end_repeat"}
BeginMarkers == {"begin_group", "begin_repeat"}   \* the markers that start with "begin"

Slash == <<"/">>
GeoSuffixes ==
    << <<"_", "latitude">>, <<"_", "longitude">>, <<"_", "altitude">>, <<"_", "precision">> >>

\* sep.join(parts)
RECURSIVE Join(_, _)
Join(parts, sep) ==
    IF parts = <<>> THEN <<>>
    ELSE IF Len(parts) = 1 THEN parts[1]
    ELSE parts[1] \o sep \o Join(Tail(parts), sep)

\* s.split(sep) for a one-atom separator
RECURSIVE SplitOn(_, _)
SplitOn(s, sep) ==
    IF \A i \in 1..Len(s) : s[i] # sep THEN <<s>>
    ELSE LET i == CHOOSE j \in 1..Len(s) :
                      s[j] = sep /\ \A k \in 1..(j - 1) : s[k] # sep
         IN  <<SubSeq(s, 1, i - 1)>> \o SplitOn(SubSeq(s, i + 1, Len(s)), sep)

\* the metadata stored with a column: the node itself, and for select_multiple
\* the copy that also carries "_choice_list" (Unset: no such key)
Meta(q) == [type |-> q.type, name |-> q.name, list |-> q.list, choice_list |-> Unset]
MetaCopy(q) == [type |-> q.type, name |-> q.name, list |-> q.list, choice_list |-> q.list]

\* not name or str(name).startswith("_")
SkippedName(name) == ~IsTruthy(name) \/ StartsWith(PyStr(name), <<"_">>)

\* the columns one leaf adds
LeafCols(stk, q) ==
    LET path == Join(stk \o <<PyStr(q.name)>>, Slash)
    IN  IF q.type = "geopoint"
        THEN [i \in 1..Len(GeoSuffixes) |-> [path |-> path \o GeoSuffixes[i], q |-> Meta(q)]]
        ELSE IF q.type = "select_multiple"
        THEN << [path |-> path, q |-> MetaCopy(q)] >>
        ELSE << [path |-> path, q |-> Meta(q)] >>

\* the name a begin marker pushes: q.get("name", "group")
PushedName(q) == IF q.name.kind = "none" THEN <<"group">> ELSE PyStr(q.name)

\* a variant in which a close marker closes every open group
FlattenNode_CloseAll(st, q) ==
    IF q.type \in GroupMarkers
    THEN IF q.type \in BeginMarkers
         THEN [st EXCEPT !.stack = Append(@, PushedName(q))]
         ELSE [st EXCEPT !.stack = <<>>]
    ELSE IF SkippedName(q.name)
    THEN st
    ELSE [st EXCEPT !.cols = @ \o LeafCols(st.stack, q)]

\* one iteration of the loop of flatten_survey over node q, on the locals
\* st = [stack, cols]
FlattenNode(st, q) ==
    IF q.type \in GroupMarkers
    THEN IF q.type \in BeginMarkers
         THEN [st EXCEPT !.stack = Append(@, PushedName(q))]
         ELSE IF st.stack # <<>>
         THEN [st EXCEPT !.stack = SubSeq(@, 1, Len(@) - 1)]
         ELSE st
    ELSE IF SkippedName(q.name)
    THEN st
    ELSE [st EXCEPT !.cols = @ \o LeafCols(st.stack, q)]

\* flatten_survey(survey, choices): the whole loop
RECURSIVE FlattenFrom(_, _)
FlattenFrom(st, nodes) ==
    IF nodes = <<>> THEN st ELSE FlattenFrom(FlattenNode(st, Head(nodes)), Tail(nodes))

FlattenSurvey(nodes) == FlattenFrom([stack |-> <<>>, cols |-> <<>>], nodes).cols

\* headers = [c for c, _ in flattened]
Headers(flat) == [i \in 1..Len(flat) |-> flat[i].path]

\* {path: q for path, q in flattened}: a dict keeps the position of a key's
\* first insertion and the value of its last
RECURSIVE DictOf(_)
DictOf(flat) ==
    IF flat = <<>> THEN <<>>
    ELSE LET d == DictOf(SubSeq(flat, 1, Len(flat) - 1))
             e == flat[Len(flat)]
         IN  IF \E i \in 1..Len(d) : d[i].path = e.path
             THEN [i \in 1..Len(d) |-> IF d[i].path = e.path THEN e ELSE d[i]]
             ELSE Append(d, e)

SystemColumns == <<ColInstanceID, ColUuid, ColId>>

SeqRange(q) == {q[i] : i \in 1..Len(q)}

\* the columns of the template: the headers, then each system column that is
\* not among them
RECURSIVE WithSystemColumns(_, _)
WithSystemColumns(columns, sys) ==
    IF sys = <<>> THEN columns
    ELSE WithSystemColumns(
             IF Head(sys) \in SeqRange(columns) THEN columns ELSE Append(columns, Head(sys)),
             Tail(sys))

TemplateColumns(flat) == WithSystemColumns(Headers(flat), SystemColumns)

----------------------------------------------------------------------------
(* XML generation *)

\* An ElementTree document is the sequence of its elements in creation order:
\* [tag, parent, text, id].  Element 1 is the root (parent 0); SubElement
\* appends, so the children of an element are in index order; text None is an
\* element without text; id is the "id" attribute (None: no attribute).
Element(tag, parent) == [tag |-> tag, parent |-> parent, text |-> None, id |-> None]

Children(tree, n) == {i \in 1..Len(tree) : tree[i].parent = n}
ChildrenTagged(tree, n, tag) == {i \in Children(tree, n) : tree[i].tag = tag}

Min(S) == CHOOSE x \in S : \A y \in S : x <= y

\* node.find(tag): the first child with that tag, 0 for None
Find(tree, n, tag) ==
    IF ChildrenTagged(tree, n, tag) = {} THEN 0 ELSE Min(ChildrenTagged(tree, n, tag))

\* bool(element): an element is truthy iff it has children; None (0) is falsy
ElementTruthy(tree, n) == n # 0 /\ Children(tree, n) # {}

\* ET.SubElement(parent, tag): the document with the new element last
SubElement(tree, parent, tag) == Append(tree, Element(tag, parent))

SetText(tree, n, text) == [tree EXCEPT ![n].text = text]

\* a variant that always creates the elements of the path
RECURSIVE EnsureNested_AlwaysCreate(_, _, _)
EnsureNested_AlwaysCreate(tree, n, path) ==
    IF path = <<>> THEN [tree |-> tree, node |-> n]
    ELSE EnsureNested_AlwaysCreate(SubElement(tree, n, Head(path)), Len(tree) + 1, Tail(path))

\* ensure_nested(root, path) from element n: [tree, node]
RECURSIVE EnsureNested(_, _, _)
EnsureNested(tree, n, path) ==
    IF path = <<>> THEN [tree |-> tree, node |-> n]
    ELSE LET child == Find(tree, n, Head(path))
         IN  IF child = 0
             THEN EnsureNested(SubElement(tree, n, Head(path)), Len(tree) + 1, Tail(path))
             ELSE EnsureNested(tree, child, Tail(path))

\* s.replace(old, new) for a one-atom old
ReplaceAtom(s, old, new) == [i \in 1..Len(s) |-> IF s[i] = old THEN new ELSE s[i]]

\* s.split(): the maximal runs of non-whitespace atoms
RECURSIVE SplitWhitespace(_)
SplitWhitespace(s) ==
    LET rest == LStrip(s)
    IN  IF rest = <<>> THEN <<>>
        ELSE LET n == IF \A i \in 1..Len(rest) : rest[i] \notin Whitespace
                      THEN Len(rest)
                      ELSE (CHOOSE j \in 1..Len(rest) :
                                rest[j] \in Whitespace
                                /\ \A k \in 1..(j - 1) : rest[k] \notin Whitespace) - 1
             IN  <<SubSeq(rest, 1, n)>> \o SplitWhitespace(SubSeq(rest, n + 1, Len(rest)))

\* a variant that splits on whitespace only
Tokens_NoComma(s) ==
    LET parts == SplitWhitespace(s)
        kept == SelectSeq(parts, LAMBDA p : Strip(p) # <<>>)
    IN  [i \in 1..Len(kept) |-> Strip(kept[i])]

\* [t.strip() for t in s.replace(",", " ").split() if t.strip()]
Tokens(s) ==
    LET parts == SplitWhitespace(ReplaceAtom(s, ",", " "))
        kept == SelectSeq(parts, LAMBDA p : Strip(p) # <<>>)
    IN  [i \in 1..Len(kept) |-> Strip(kept[i])]

Space == <<" ">>

\* the value of a geopoint field, None when there is none
GeopointValue(r, path) ==
    LET lat == Strip(PyStr(RowGetDefault(r, path \o GeoSuffixes[1], StrV(<<>>))))
        lon == Strip(PyStr(RowGetDefault(r, path \o GeoSuffixes[2], StrV(<<>>))))
        alt == Strip(PyStr(RowGetDefault(r, path \o GeoSuffixes[3], StrV(<<"0">>))))
        acc == Strip(PyStr(RowGetDefault(r, path \o GeoSuffixes[4], StrV(<<"0.0">>))))
    IN  IF lat # <<>> /\ lon # <<>>
        THEN StrV(lat \o Space \o lon \o Space \o alt \o Space \o acc)
        ELSE None

\* the value of a select_multiple field
SelectMultipleValue(r, path) ==
    IF path \in DOMAIN r /\ r[path].kind = "str" /\ Tokens(r[path].s) # <<>>
    THEN StrV(Join(Tokens(r[path].s), Space))
    ELSE None

\* the value of a field of any other type
OtherValue(r, path) ==
    IF path \in DOMAIN r /\ NotNa(r[path]) /\ Strip(PyStr(r[path])) # <<>>
    THEN StrV(Strip(PyStr(r[path])))
    ELSE None

\* the value row_to_xml computes for one entry of the schema map
FieldValue(r, e) ==
    IF e.q.type = "geopoint" THEN GeopointValue(r, e.path)
    ELSE IF e.q.type = "select_multiple" THEN SelectMultipleValue(r, e.path)
    ELSE OtherValue(r, e.path)

\* "Add to XML if we have a value": one iteration of the loop over the schema map
AddField(tree, r, e) ==
    LET value == FieldValue(r, e)
        parts == SplitOn(e.path, "/")
        nested == EnsureNested(tree, 1, SubSeq(parts, 1, Len(parts) - 1))
    IN  IF value.kind = "none" THEN tree
        ELSE SetText(SubElement(nested.tree, nested.node, parts[Len(parts)]),
                     Len(nested.tree) + 1, value)

RECURSIVE AddFields(_, _, _)
AddFields(tree, r, schema) ==
    IF schema = <<>> THEN tree
    ELSE AddFields(AddField(tree, r, Head(schema)), r, Tail(schema))

TagMeta == <<"meta">>
TagInstanceID == <<"instanceID">>
TagDeprecatedID == <<"deprecatedID">>

\* x = node.find(tag) or ET.SubElement(node, tag): [tree, node]
FindOrCreate(tree, n, tag) ==
    IF ElementTruthy(tree, Find(tree, n, tag))
    THEN [tree |-> tree, node |-> Find(tree, n, tag)]
    ELSE [tree |-> SubElement(tree, n, tag), node |-> Len(tree) + 1]

\* "Add deprecatedID for updates"
AddDeprecatedID(tree, meta, dep) ==
    IF IsTruthy(dep)
    THEN SetText(SubElement(tree, meta, TagDeprecatedID), Len(tree) + 1, EnsureUuidPrefix(dep))
    ELSE tree

\* row_to_xml(row, form_id, schema_map, deprecated_id), with uuid the text of
\* str(uuid.uuid4()) drawn by this call; the result is the document that
\* ET.tostring serializes
RowToXml(r, form_id, schema, dep, uuid) ==
    LET root == << [tag |-> form_id, parent |-> 0, text |-> None, id |-> StrV(form_id)] >>
        body == AddFields(root, r, schema)
        meta == FindOrCreate(body, 1, TagMeta)
        inst == FindOrCreate(meta.tree, meta.node, TagInstanceID)
        withId == SetText(inst.tree, inst.node, StrV(UuidPrefix \o uuid))
    IN  AddDeprecatedID(withId, meta.node, dep)

----------------------------------------------------------------------------
(* Existing-ID set *)

\* s.replace(old, "") for a one-atom old
RemoveAtom(s, old) == SelectSeq(s, LAMBDA c : c # old)

\* a variant that keeps the prefixed forms only
BuildExistingIdSet_PrefixedOnly(idm) ==
    IF ~idm.present \/ idm.recs = <<>> THEN {}
    ELSE {EnsureUuidPrefix(StrV(Strip(PyStr(idm.recs[i].instanceID)))).s :
             i \in {j \in 1..Len(idm.recs) : NotNa(idm.recs[j].instanceID)}}

\* build_existing_id_set(id_map_df): a set of texts
BuildExistingIdSet(idm) ==
    IF ~idm.present \/ idm.recs = <<>> THEN {}
    ELSE UNION {LET val_str == Strip(PyStr(idm.recs[i].instanceID))
                IN  {EnsureUuidPrefix(StrV(val_str)).s, RemoveAtom(val_str, "uuid:")} :
                   i \in {j \in 1..Len(idm.recs) : NotNa(idm.recs[j].instanceID)}}

----------------------------------------------------------------------------
(* Data normalization *)

\* A DataFrame is [columns, rows]: the column names in order and, row by row,
\* the cells in column order.  NoFrame: no table uploaded yet.
NoFrame == [columns |-> <<>>, rows |-> <<>>]
NoInfo == Unset       \* normalize_update_ids has not run

HasColumn(d, c) == \E k \in 1..Len(d.columns) : d.columns[k] = c
ColumnIndex(d, c) == CHOOSE k \in 1..Len(d.columns) : d.columns[k] = c

\* df[c]: the cells of column c, row by row
ColumnOf(d, c) == [r \in 1..Len(d.rows) |-> d.rows[r][ColumnIndex(d, c)]]

\* df[c] = values: replaces the column, or appends it when the table has none
SetColumn(d, c, values) ==
    IF HasColumn(d, c)
    THEN [d EXCEPT !.rows = [r \in 1..Len(d.rows) |->
                                [d.rows[r] EXCEPT ![ColumnIndex(d, c)] = values[r]]]]
    ELSE [columns |-> Append(d.columns, c),
          rows |-> [r \in 1..Len(d.rows) |-> Append(d.rows[r], values[r])]]

\* the row a loop over df.iterrows() sees: column name -> cell
RowOf(d, r) == [c \in SeqRange(d.columns) |-> d.rows[r][ColumnIndex(d, c)]]

Candidates ==
    << <<"meta", "_", "instanceID">>, <<"meta", "/", "instanceid">>, <<"instanceID">>,
       <<"instance", "_", "id">>, <<"_", "uuid">>, <<"_", "_", "uuid">>, <<"uuid">>,
       <<"submission", "_", "uuid">>, <<"_", "submission", "_", "_", "uuid">> >>

\* a variant that takes the last candidate the table has
FirstCandidate_Last(d) ==
    LET present == {k \in 1..Len(Candidates) : HasColumn(d, Candidates[k])}
    IN  IF present = {} THEN 0 ELSE CHOOSE k \in present : \A j \in present : j <= k

\* the loop over the candidates: the position of the first one the table has,
\* 0 when it has none
FirstCandidate(d) ==
    LET present == {k \in 1..Len(Candidates) : HasColumn(d, Candidates[k])}
    IN  IF present = {} THEN 0 ELSE Min(present)

\* normalize_update_ids(df): [df, info]
NormalizeUpdateIds(d) ==
    LET d1 == [d EXCEPT !.columns = [k \in 1..Len(d.columns) |-> Strip(d.columns[k])]]
        synth == ~HasColumn(d1, ColInstanceID) /\ FirstCandidate(d1) # 0
        from == ColumnOf(d1, Candidates[FirstCandidate(d1)])
        d2 == IF synth
              THEN SetColumn(d1, ColInstanceID,
                       [r \in 1..Len(d1.rows) |->
                           IF NotNa(from[r]) THEN EnsureUuidPrefix(from[r]) ELSE from[r]])
              ELSE d1
        std == HasColumn(d2, ColInstanceID)
        d3 == IF std
              THEN SetColumn(d2, ColInstanceID,
                       [r \in 1..Len(d2.rows) |-> EnsureUuidPrefix(ColumnOf(d2, ColInstanceID)[r])])
              ELSE d2
    IN  [df |-> d3,
         info |-> [created_from_uuid |-> synth, standardized_prefix |-> std]]

----------------------------------------------------------------------------
(* Bounds and input sets *)

MaxIdLen == 3        \* longest identifier text, in atoms
MaxRecs == 2         \* most known records
MaxEncSurvey == 3    \* most nodes of a survey that is encoded
MaxCells == 2        \* most columns of an encoded row
MaxSurvey == 4       \* most nodes of a survey that is flattened
MaxSelLen == 4       \* longest select_multiple cell, in atoms
MaxCalls == 2        \* most submissions of one row
MaxRows == 2         \* most rows of an uploaded table

BoundedSeq(S, n) == UNION {[1..k -> S] : k \in 0..n}

IdAlphabet == {"uuid:", " ", "a", "b"}
IdStrings == BoundedSeq(IdAlphabet, MaxIdLen)

\* a row from a choice of cells, Absent marking the columns the row lacks
Absent == [kind |-> "absent", s |-> <<>>]
MakeRow(f) == [c \in {c \in DOMAIN f : f[c] # Absent} |-> f[c]]

InstanceCells ==
    {Absent, NaN, StrV(<<>>), StrV(<<" ">>), StrV(<<" ", "x">>), StrV(<<"uuid:", "x">>)}
UuidCells == {Absent, NaN, StrV(<<" ">>), StrV(<<"y", " ">>)}
IdCells == {Absent, NaN, StrV(<<"1">>), StrV(<<"2">>), IntV(<<"1">>)}

IdRows ==
    {MakeRow([c \in {ColInstanceID, ColUuid, ColId} |->
                 IF c = ColInstanceID THEN i ELSE IF c = ColUuid THEN u ELSE d]) :
        i \in InstanceCells, u \in UuidCells, d \in IdCells}

\* fetch_submission_map: "_id" is the JSON number of the record,
\* "meta/instanceID" is prefixed, and drop_duplicates leaves no two records
\* with the same "meta/instanceID"
KnownRecords ==
    [id : {IntV(<<"1">>), IntV(<<"2">>)},
     instanceID : {StrV(<<"uuid:", "x">>), StrV(<<"uuid:", "y">>)}]
IdMaps ==
    {NoTable} \cup
    {Table(recs) : recs \in
        {q \in BoundedSeq(KnownRecords, MaxRecs) :
            \A i, j \in 1..Len(q) : i # j => q[i].instanceID # q[j].instanceID}}

FormId == <<"form">>
RandomIds == << <<"r1">>, <<"r2">>, <<"r3">> >>   \* the texts uuid.uuid4() returns, call by call
Uuid4(n) == RandomIds[n]

EncNodes ==
    {Node("begin_group", StrV(<<"g">>)), Node("begin_group", StrV(TagMeta)),
     Node("end_group", None),
     Node("text", StrV(<<"a">>)), Node("text", StrV(<<"b">>)),
     Node("text", StrV(TagInstanceID)), Node("text", StrV(TagDeprecatedID)),
     Node("text", StrV(TagMeta)),
     Node("geopoint", StrV(<<"loc">>)),
     SelectNode(StrV(<<"s">>), StrV(<<"opts">>))}
EncSurveys == BoundedSeq(EncNodes, MaxEncSurvey)

FlatNodes ==
    {Node("begin_group", StrV(<<"g">>)), Node("begin_repeat", None),
     Node("end_group", None),
     Node("text", StrV(<<"a">>)), Node("text", StrV(<<"b">>)),
     Node("calculate", StrV(<<"_", "x">>)), Node("note", None),
     Node("geopoint", StrV(<<"loc">>)),
     Node("text", StrV(<<"loc", "_", "latitude">>)),
     Node("begin_group", StrV(TagMeta)), Node("text", StrV(TagInstanceID)),
     SelectNode(StrV(<<"s">>), StrV(<<"opts">>))}
FlatSurveys == BoundedSeq(FlatNodes, MaxSurvey)

SelectSurveys ==
    { <<SelectNode(StrV(<<"s">>), StrV(<<"opts">>))>>,
      <<Node("begin_group", StrV(<<"g">>)), SelectNode(StrV(<<"s">>), None)>> }
SelectAlphabet == {"a", "A", ",", " ", "\t"}
SelectStrings ==
    BoundedSeq(SelectAlphabet, MaxSelLen) \cup {<<"a", ",", " ", "b", ",", "c">>}

PlainCells == {NaN, StrV(<<" ">>), StrV(<<"7", " ">>)}
SelectCells == {NaN, StrV(<<",", " ">>), StrV(<<"a", ",", " ", "b", ",", "c">>)}
DeprecatedIds == {None, StrV(<<"abc">>), StrV(<<"uuid:", "abc">>)}

\* the columns a row may carry: the columns of the schema map and the four
\* columns row_to_xml reads for the first geopoint entry
GeoEntries(schema) == SelectSeq(schema, LAMBDA e : e.q.type = "geopoint")
RowColumns(schema) ==
    {schema[i].path : i \in 1..Len(schema)} \cup
    (IF GeoEntries(schema) = <<>> THEN {}
     ELSE {GeoEntries(schema)[1].path \o GeoSuffixes[i] : i \in 1..2})

CellsFor(schema, c) ==
    IF \E i \in 1..Len(schema) : schema[i].path = c /\ schema[i].q.type = "select_multiple"
    THEN SelectCells
    ELSE PlainCells

Rows(schema) ==
    UNION {{f \in [D -> PlainCells \cup SelectCells] : \A c \in D : f[c] \in CellsFor(schema, c)} :
           D \in {D \in SUBSET RowColumns(schema) : Cardinality(D) <= MaxCells}}

\* the uploaded tables of edit mode, as read_table returns them (dtype=str:
\* every cell is text or missing), column names not yet trimmed and distinct
\* once trimmed
ColDeprecatedID == <<"meta", "/", "deprecatedID">>
UploadedColumns ==
    { <<ColInstanceID, ColId>>,
      <<<<" ">> \o ColInstanceID \o <<" ">>, ColDeprecatedID>>,
      <<ColUuid, <<"instanceID">>>>,
      <<ColUuid, ColId>>,
      <<ColId, <<"a">>>> }
TargetCells == {NaN, StrV(<<" ">>), StrV(<<"x">>), StrV(<<"uuid:", "y", " ">>), StrV(<<"z">>)}
UploadedCells(c) ==
    IF Strip(c) \in {ColInstanceID, ColUuid, <<"instanceID">>} THEN TargetCells
    ELSE IF c = ColId THEN {NaN, StrV(<<"1">>)}
    ELSE IF c = ColDeprecatedID THEN {NaN, StrV(<<"7">>)}
    ELSE {StrV(<<"7">>)}
UploadedRows(columns) ==
    {r \in [1..Len(columns) -> TargetCells \cup {StrV(<<"1">>), StrV(<<"7">>)}] :
        \A k \in 1..Len(columns) : r[k] \in UploadedCells(columns[k])}
UploadedTables ==
    UNION {{[columns |-> columns, rows |-> rows] :
               rows \in BoundedSeq(UploadedRows(columns), MaxRows)} :
           columns \in UploadedColumns}

\* the form of edit mode: a question and a meta group holding deprecatedID
EditSurvey ==
    <<Node("text", StrV(<<"a">>)), Node("begin_group", StrV(TagMeta)),
      Node("text", StrV(TagDeprecatedID))>>

\* the known-records tables build_existing_id_set may be given: the canonical
\* ID in prefixed or bare form, with surrounding whitespace, or missing
IdSetRecords ==
    [id : {IntV(<<"1">>), IntV(<<"2">>)},
     instanceID : {StrV(<<"uuid:", "xyz">>), StrV(<<"xyz">>), StrV(<<" ", "uuid:", "w", " ">>),
                   StrV(<<"v">>), None}]
IdSetTables == {NoTable} \cup {Table(recs) : recs \in BoundedSeq(IdSetRecords, MaxRecs)}

----------------------------------------------------------------------------
(* Actions *)

NormIdle == t = Unset /\ n1 = Unset /\ n2 = Unset /\ np = Unset
IdIdle == row = <<>> /\ id_map = NoTable /\ deprecated_id = Unset
FlatIdle == survey = <<>> /\ pos = 1 /\ stack = <<>> /\ cols = <<>>
TmplIdle == headers = <<>> /\ schema_map = <<>>
XmlIdle == xml = <<>> /\ calls = 0
EditIdle ==
    /\ df = NoFrame /\ info = NoInfo /\ idx = 0
    /\ existing_ids = {} /\ results = <<>> /\ posted = <<>>

\* ensure_uuid_prefix(t)
Normalize ==
    /\ t # Unset /\ n1 = Unset
    /\ n1' = EnsureUuidPrefix(t)
    /\ UNCHANGED <<t, n2, np, idVars, flatVars, tmplVars, xmlVars, editVars>>

\* ensure_uuid_prefix applied to its own result
NormalizeAgain ==
    /\ n1 # Unset /\ n2 = Unset
    /\ n2' = EnsureUuidPrefix(n1)
    /\ UNCHANGED <<t, n1, np, idVars, flatVars, tmplVars, xmlVars, editVars>>

\* ensure_uuid_prefix("uuid:" + t)
NormalizePrefixed ==
    /\ t # Unset /\ np = Unset
    /\ np' = EnsureUuidPrefix(StrV(UuidPrefix \o t.s))
    /\ UNCHANGED <<t, n1, n2, idVars, flatVars, tmplVars, xmlVars, editVars>>

\* deprecated_id = get_submission_id(row, id_map)
Resolve ==
    /\ deprecated_id = Unset
    /\ deprecated_id' = GetSubmissionId(row, id_map)
    /\ UNCHANGED <<row, id_map, normVars, flatVars, tmplVars, xmlVars, editVars>>

\* xml = row_to_xml(row, form_id, schema_map, deprecated_id) for a row of the
\* uploaded table
EncodeRow ==
    /\ calls = 0 /\ pos > Len(survey) /\ survey # <<>>
    /\ \E r \in Rows(schema_map), dep \in DeprecatedIds :
          /\ row' = r
          /\ deprecated_id' = dep
          /\ xml' = RowToXml(r, FormId, schema_map, dep, Uuid4(1))
    /\ calls' = 1
    /\ UNCHANGED <<id_map, normVars, flatVars, tmplVars, editVars>>

\* the same row submitted again
EncodeAgain ==
    /\ calls >= 1 /\ calls < MaxCalls
    /\ xml' = RowToXml(row, FormId, schema_map, deprecated_id, Uuid4(calls + 1))
    /\ calls' = calls + 1
    /\ UNCHANGED <<idVars, normVars, flatVars, tmplVars, editVars>>

\* one iteration of the loop of flatten_survey
FlattenStep ==
    /\ pos <= Len(survey) /\ headers = <<>>
    /\ LET st == FlattenNode([stack |-> stack, cols |-> cols], survey[pos])
       IN  stack' = st.stack /\ cols' = st.cols
    /\ pos' = pos + 1
    /\ UNCHANGED <<survey, tmplVars, normVars, idVars, xmlVars, editVars>>

\* build_template_df once flatten_survey has returned
BuildTemplate ==
    /\ pos > Len(survey) /\ headers = <<>>
    /\ headers' = TemplateColumns(cols)
    /\ schema_map' = DictOf(cols)
    /\ UNCHANGED <<flatVars, normVars, idVars, xmlVars, editVars>>

\* row_to_xml for a row whose only column is the select_multiple column
EncodeSelect ==
    /\ calls = 0 /\ schema_map # <<>>
    /\ \E cell \in {Absent, NaN} \cup {StrV(v) : v \in SelectStrings} :
          /\ row' = MakeRow([c \in {schema_map[1].path} |-> cell])
          /\ xml' = RowToXml(row', FormId, schema_map, None, Uuid4(1))
    /\ deprecated_id' = None
    /\ calls' = 1
    /\ UNCHANGED <<id_map, normVars, flatVars, tmplVars, editVars>>

\* handle_file_upload in edit mode: df, norm_info = normalize_update_ids(df)
HandleFileUpload ==
    /\ info = NoInfo /\ df # NoFrame
    /\ df' = NormalizeUpdateIds(df).df
    /\ info' = NormalizeUpdateIds(df).info
    /\ UNCHANGED <<idx, existing_ids, results, posted, normVars, idVars, flatVars,
                   tmplVars, xmlVars>>

\* process_submissions in edit mode, up to the loop: the known records are
\* fetched and existing_ids built
FetchExisting ==
    /\ info # NoInfo /\ idx = 0
    /\ existing_ids' = BuildExistingIdSet(id_map)
    /\ idx' = 1
    /\ UNCHANGED <<df, info, results, posted, normVars, idVars, flatVars, tmplVars, xmlVars>>

\* fetch_submission_map raises: process_submissions returns, no row is handled
FetchFails ==
    /\ info # NoInfo /\ idx = 0
    /\ idx' = Len(df.rows) + 1
    /\ UNCHANGED <<df, info, existing_ids, results, posted, normVars, idVars, flatVars,
                   tmplVars, xmlVars>>

Record(r, status, detail) == [row |-> r, status |-> status, detail |-> detail]

\* one iteration of the loop of process_submissions in edit mode; the outcome
\* of post_submission is OK, FAIL, or an exception recorded as ERROR
ProcessRow ==
    /\ idx \in 1..Len(df.rows)
    /\ LET r == RowOf(df, idx)
           dep == GetSubmissionId(r, id_map)
       IN  /\ row' = r
           /\ deprecated_id' = dep
           /\ IF ~IsTruthy(dep)
              THEN /\ results' = Append(results, Record(idx, "Skipped", "No target ID"))
                   /\ UNCHANGED <<xml, calls, posted>>
              ELSE IF dep.s \notin existing_ids
              THEN /\ results' = Append(results, Record(idx, "Skipped", "ID not found"))
                   /\ UNCHANGED <<xml, calls, posted>>
              ELSE /\ xml' = RowToXml(r, FormId, schema_map, dep, Uuid4(calls + 1))
                   /\ calls' = calls + 1
                   /\ posted' = Append(posted, [row |-> idx, xml |-> xml'])
                   /\ \E status \in {"OK", "FAIL", "ERROR"} :
                         results' = Append(results, Record(idx, status, "msg"))
    /\ idx' = idx + 1
    /\ UNCHANGED <<df, info, existing_ids, id_map, normVars, flatVars, tmplVars>>

\* build_existing_id_set(id_map) on its own
BuildIdSet ==
    /\ idx = 0 /\ df = NoFrame
    /\ existing_ids' = BuildExistingIdSet(id_map)
    /\ idx' = 1
    /\ UNCHANGED <<df, info, results, posted, normVars, idVars, flatVars, tmplVars, xmlVars>>

----------------------------------------------------------------------------
(* Specifications *)

\* ensure_uuid_prefix on every identifier text
InitNorm ==
    /\ t \in {StrV(s) : s \in IdStrings}
    /\ n1 = Unset /\ n2 = Unset /\ np = Unset
    /\ IdIdle /\ FlatIdle /\ TmplIdle /\ XmlIdle /\ EditIdle
NextNorm == Normalize \/ NormalizeAgain \/ NormalizePrefixed
SpecNorm == InitNorm /\ [][NextNorm]_vars

\* get_submission_id on every row and known-records table
InitResolve ==
    /\ row \in IdRows /\ id_map \in IdMaps /\ deprecated_id = Unset
    /\ NormIdle /\ FlatIdle /\ TmplIdle /\ XmlIdle /\ EditIdle
NextResolve == Resolve
SpecResolve == InitResolve /\ [][NextResolve]_vars

\* flatten_survey and build_template_df on every survey
InitFlatten ==
    /\ survey \in FlatSurveys
    /\ pos = 1 /\ stack = <<>> /\ cols = <<>>
    /\ NormIdle /\ IdIdle /\ TmplIdle /\ XmlIdle /\ EditIdle
NextFlatten == FlattenStep \/ BuildTemplate
SpecFlatten == InitFlatten /\ [][NextFlatten]_vars

\* the state once the form is selected and its template built
TemplateBuilt(surveys) ==
    /\ survey \in surveys
    /\ pos = Len(survey) + 1
    /\ stack = FlattenFrom([stack |-> <<>>, cols |-> <<>>], survey).stack
    /\ cols = FlattenSurvey(survey)
    /\ headers = TemplateColumns(cols)
    /\ schema_map = DictOf(cols)
    /\ NormIdle /\ IdIdle /\ XmlIdle /\ EditIdle

\* row_to_xml on the schema map build_template_df derives from a survey
Init == TemplateBuilt(EncSurveys \ {<<>>})
Next == EncodeRow \/ EncodeAgain
Spec == Init /\ [][Next]_vars

\* row_to_xml on every cell of a select_multiple column
InitSelect == TemplateBuilt(SelectSurveys)
NextSelect == EncodeSelect
SpecSelect == InitSelect /\ [][NextSelect]_vars

\* edit mode: an uploaded table is normalized, then its rows are processed
InitEdit ==
    /\ survey = EditSurvey
    /\ pos = Len(survey) + 1
    /\ stack = FlattenFrom([stack |-> <<>>, cols |-> <<>>], survey).stack
    /\ cols = FlattenSurvey(survey)
    /\ headers = TemplateColumns(cols)
    /\ schema_map = DictOf(cols)
    /\ row = <<>> /\ deprecated_id = Unset /\ id_map \in IdMaps
    /\ df \in UploadedTables
    /\ info = NoInfo /\ idx = 0 /\ existing_ids = {} /\ results = <<>> /\ posted = <<>>
    /\ NormIdle /\ XmlIdle
NextEdit == HandleFileUpload \/ FetchExisting \/ FetchFails \/ ProcessRow
SpecEdit == InitEdit /\ [][NextEdit]_vars

\* build_existing_id_set on every known-records table
InitIdSet ==
    /\ id_map \in IdSetTables /\ row = <<>> /\ deprecated_id = Unset
    /\ NormIdle /\ FlatIdle /\ TmplIdle /\ XmlIdle /\ EditIdle
NextIdSet == BuildIdSet
SpecIdSet == InitIdSet /\ [][NextIdSet]_vars

----------------------------------------------------------------------------
(* Claims about ID handling *)

\* C4 as stated: for every identifier text t, normalizing twice gives what
\* normalizing once gives, and the text with "uuid:" put in front normalizes
\* to what the text itself normalizes to.
C4_IdempotentAndPrefixInsensitive ==
    /\ (n1 # Unset /\ n2 # Unset) => n2 = n1
    /\ (n1 # Unset /\ np # Unset) => np = n1

\* a bare identifier: not empty, no whitespace in front, not itself prefixed
IsBareId(s) == s # <<>> /\ Head(s) \notin Whitespace /\ ~StartsWith(s, UuidPrefix)

\* C4 as amended: normalization is idempotent on every text, and the text
\* with "uuid:" put in front normalizes to what the text itself normalizes to
\* for every bare identifier (not empty, no leading whitespace, not already
\* prefixed); the common result is "uuid:" followed by the trimmed text.
C4_IdempotentAndBarePrefixInsensitive ==
    /\ (n1 # Unset /\ n2 # Unset) => n2 = n1
    /\ (n1 # Unset /\ np # Unset /\ IsBareId(t.s)) =>
           (np = n1 /\ n1 = StrV(UuidPrefix \o Strip(t.s)))

\* C4 witness: a bare identifier with trailing whitespace, normalized once,
\* twice and in prefixed form, all giving "uuid:a"
C4_Witness ==
    /\ t = StrV(<<"a", " ">>)
    /\ n1 = StrV(<<"uuid:", "a">>) /\ n2 = n1 /\ np = n1

\* C5: get_submission_id takes the first of "meta/instanceID" and "_uuid"
\* that holds a non-blank value, normalized to prefixed form; a blank or
\* missing "meta/instanceID" does not stop "_uuid" from being used; the
\* known-records table plays no part.
Supplied(v) == v.kind = "str" /\ Strip(v.s) # <<>>
C5_DirectIdRule ==
    deprecated_id # Unset =>
        LET inst == RowGet(row, ColInstanceID)
            uuid == RowGet(row, ColUuid)
        IN  /\ Supplied(inst) => deprecated_id = EnsureUuidPrefix(StrV(Strip(inst.s)))
            /\ (~Supplied(inst) /\ Supplied(uuid)) =>
                   deprecated_id = EnsureUuidPrefix(StrV(Strip(uuid.s)))

\* C6: with neither a non-blank "meta/instanceID" nor a non-blank "_uuid", the
\* result is the canonical instance ID of the known record with the row's
\* "_id" if the row has an "_id" and exactly one known record has that "_id",
\* and unresolved (None, or the empty text the caller treats like it) in every
\* other case.
HasId(v) == v.kind \in {"str", "int"}
RecordsWithId(idm, v) == {i \in 1..Len(idm.recs) : idm.recs[i].id = v}
C6_FallbackRule ==
    (deprecated_id # Unset
       /\ ~Supplied(RowGet(row, ColInstanceID)) /\ ~Supplied(RowGet(row, ColUuid))) =>
        LET id == RowGet(row, ColId)
            hits == IF HasId(id) THEN RecordsWithId(id_map, id) ELSE {}
        IN  IF Cardinality(hits) = 1
            THEN \E i \in hits : deprecated_id = id_map.recs[i].instanceID
            ELSE ~IsTruthy(deprecated_id)

----------------------------------------------------------------------------
(* Claims about the encoder *)

\* the tags on the way from the root down to element n, the root's excluded
RECURSIVE TagPath(_, _)
TagPath(tree, n) ==
    IF tree[n].parent = 0 THEN <<>>
    ELSE Append(TagPath(tree, tree[n].parent), tree[n].tag)

ElementsAt(tree, path) == {n \in 1..Len(tree) : TagPath(tree, n) = path}
PathParts(path) == SplitOn(path, "/")

\* the text the current call drew for its instanceID
FreshId == StrV(UuidPrefix \o Uuid4(calls))

\* C1: whatever the schema map and the row hold, the document has exactly one
\* meta element under the root, that element has exactly one instanceID
\* child, and the child's text is the identifier this call generated, not the
\* identifier of an earlier call.
C1_OneFreshInstanceID ==
    xml # <<>> =>
        /\ Cardinality(ChildrenTagged(xml, 1, TagMeta)) = 1
        /\ \A m \in ChildrenTagged(xml, 1, TagMeta) :
              /\ Cardinality(ChildrenTagged(xml, m, TagInstanceID)) = 1
              /\ \A i \in ChildrenTagged(xml, m, TagInstanceID) :
                    /\ xml[i].text = FreshId
                    /\ \A k \in 1..(calls - 1) : xml[i].text # StrV(UuidPrefix \o Uuid4(k))

\* the geopoint questions of the survey, by path: a geopoint's first column
\* is the path followed by "_latitude"
IsSuffixOf(suffix, s) ==
    Len(s) >= Len(suffix) /\ SubSeq(s, Len(s) - Len(suffix) + 1, Len(s)) = suffix
GeopointPaths ==
    {SubSeq(cols[i].path, 1, Len(cols[i].path) - Len(GeoSuffixes[1])) :
        i \in {j \in 1..Len(cols) :
                  cols[j].q.type = "geopoint" /\ IsSuffixOf(GeoSuffixes[1], cols[j].path)}}

\* the cell of a template column, with its default when the cell has no value
CellOr(r, col, default) ==
    IF Supplied(RowGet(r, col)) THEN Strip(RowGet(r, col).s) ELSE default

\* C2: for a geopoint question at path p of the survey and a row whose
\* template columns p_latitude and p_longitude are both non-blank, the
\* document holds the geopoint at p as "<lat> <lon> <alt> <precision>", a
\* missing altitude being "0" and a missing precision "0.0".
C2_GeopointEndToEnd ==
    xml # <<>> =>
        \A p \in GeopointPaths :
            (Supplied(RowGet(row, p \o GeoSuffixes[1]))
               /\ Supplied(RowGet(row, p \o GeoSuffixes[2]))) =>
                \E n \in ElementsAt(xml, PathParts(p)) :
                    xml[n].text =
                        StrV(CellOr(row, p \o GeoSuffixes[1], <<>>) \o Space
                             \o CellOr(row, p \o GeoSuffixes[2], <<>>) \o Space
                             \o CellOr(row, p \o GeoSuffixes[3], <<"0">>) \o Space
                             \o CellOr(row, p \o GeoSuffixes[4], <<"0.0">>))

\* C3: a geopoint entry of the schema map whose latitude or longitude column
\* has no value (absent, missing, empty or blank) gets no element at all.
C3_PartialGeopointOmitted ==
    xml # <<>> =>
        \A i \in 1..Len(schema_map) :
            (schema_map[i].q.type = "geopoint"
               /\ (~Supplied(RowGet(row, schema_map[i].path \o GeoSuffixes[1]))
                     \/ ~Supplied(RowGet(row, schema_map[i].path \o GeoSuffixes[2])))) =>
                ElementsAt(xml, PathParts(schema_map[i].path)) = {}

\* C7: with a deprecated_id, meta has exactly one deprecatedID child, its text
\* the identifier in prefixed form, next to the fresh instanceID; without one
\* no meta element of the document has a deprecatedID child.
C7_DeprecatedIdIffUpdate ==
    xml # <<>> =>
        LET deps == {n \in 1..Len(xml) :
                        /\ xml[n].tag = TagDeprecatedID
                        /\ xml[n].parent \in ChildrenTagged(xml, 1, TagMeta)}
        IN  IF deprecated_id = None
            THEN deps = {}
            ELSE /\ Cardinality(deps) = 1
                 /\ \A n \in deps :
                       /\ xml[n].text = StrV(<<"uuid:", "abc">>)
                       /\ \E i \in ChildrenTagged(xml, xml[n].parent, TagInstanceID) :
                             xml[i].text = FreshId


\* the entries of the schema map that yield a value for the row
Valued == {i \in 1..Len(schema_map) : FieldValue(row, schema_map[i]) # None}
ValuedParts == {PathParts(schema_map[i].path) : i \in Valued}

\* C9: every group prefix of a path that yields a value is materialized as
\* one element, shared by the leaves below it, in whatever order the paths are
\* processed: exactly one element at the prefix has children, every leaf is a
\* child of that element, and no second element carries the prefix unless the
\* prefix is itself the path of a field that yields a value.
C9_GroupSharing ==
    xml # <<>> =>
        \A i \in Valued :
            LET parts == PathParts(schema_map[i].path)
            IN  /\ \A k \in 1..(Len(parts) - 1) :
                      LET pre == SubSeq(parts, 1, k)
                      IN  /\ Cardinality({n \in ElementsAt(xml, pre) :
                                             Children(xml, n) # {}}) = 1
                          /\ pre \notin ValuedParts => Cardinality(ElementsAt(xml, pre)) = 1
                /\ \E n \in ElementsAt(xml, parts) :
                      xml[n].text = FieldValue(row, schema_map[i])

\* C9 witness: "g/a" and "g/b" both yield a value and the document has one g
\* element, whose children are a and b
C9_Witness ==
    /\ xml # <<>>
    /\ { << <<"g">>, <<"a">> >>, << <<"g">>, <<"b">> >> } \subseteq ValuedParts
    /\ \E g \in ElementsAt(xml, << <<"g">> >>) :
          /\ ElementsAt(xml, << <<"g">> >>) = {g}
          /\ {xml[n].tag : n \in Children(xml, g)} = {<<"a">>, <<"b">>}
          /\ Cardinality(Children(xml, g)) = 2

\* the separators of a select_multiple cell
IsSeparator(c) == c = "," \/ c \in Whitespace

\* the cell with every run of separators between two tokens turned into one
\* space and the separators in front of the first token and behind the last
\* one dropped: position i stays if it holds no separator, or if it is the
\* first separator behind a token that has another token somewhere behind it
JoinedTokens(v) ==
    LET keep == {i \in 1..Len(v) :
                    \/ ~IsSeparator(v[i])
                    \/ /\ i > 1 /\ ~IsSeparator(v[i - 1])
                       /\ \E j \in (i + 1)..Len(v) : ~IsSeparator(v[j])}
        nth(k) == CHOOSE i \in keep : Cardinality({j \in keep : j < i}) = k - 1
    IN  [k \in 1..Cardinality(keep) |-> IF IsSeparator(v[nth(k)]) THEN " " ELSE v[nth(k)]]

\* C10: a select_multiple cell that holds a token is emitted as its tokens
\* joined by single spaces, in their order, none folded or dropped ("a, b,c"
\* gives "a b c"); a cell that is missing, blank or all separators gives no
\* element.
C10_SelectMultipleTokens ==
    xml # <<>> =>
        LET path == schema_map[1].path
            cell == RowGet(row, path)
            found == ElementsAt(xml, PathParts(path))
        IN  /\ schema_map[1].q.type = "select_multiple"
            /\ IF cell.kind = "str" /\ \E i \in 1..Len(cell.s) : ~IsSeparator(cell.s[i])
               THEN /\ Cardinality(found) = 1
                    /\ \A n \in found : xml[n].text = StrV(JoinedTokens(cell.s))
               ELSE found = {}
            /\ cell = StrV(<<"a", ",", " ", "b", ",", "c">>) =>
                   \A n \in found : xml[n].text = StrV(<<"a", " ", "b", " ", "c">>)

\* C10 witness: the cell "a, b,c" inside group g, emitted as "a b c"
C10_Witness ==
    /\ xml # <<>>
    /\ RowGet(row, <<"g", "/", "s">>) = StrV(<<"a", ",", " ", "b", ",", "c">>)
    /\ \E n \in ElementsAt(xml, << <<"g">>, <<"s">> >>) :
          xml[n].text = StrV(<<"a", " ", "b", " ", "c">>)

----------------------------------------------------------------------------
(* Claims about the flattener *)

\* the stack of open groups when the loop reaches node i
StackAt(i) == FlattenFrom([stack |-> <<>>, cols |-> <<>>], SubSeq(survey, 1, i - 1)).stack

IsBegin(q) == q.type \in BeginMarkers
IsLeaf(q) == q.type \notin GroupMarkers /\ ~SkippedName(q.name)
NameOf(q) == IF IsBegin(q) THEN PushedName(q) ELSE PyStr(q.name)

\* no two questions or groups of the same enclosing group share a name
UniqueNames ==
    \A i, j \in 1..Len(survey) :
        (i < j /\ (IsBegin(survey[i]) \/ IsLeaf(survey[i]))
               /\ (IsBegin(survey[j]) \/ IsLeaf(survey[j]))
               /\ StackAt(i) = StackAt(j)) =>
            NameOf(survey[i]) # NameOf(survey[j])

LeavesOfType(types) ==
    Cardinality({i \in 1..Len(survey) : IsLeaf(survey[i]) /\ survey[i].type \in types})
OtherLeaves ==
    Cardinality({i \in 1..Len(survey) :
                    IsLeaf(survey[i]) /\ survey[i].type \notin {"geopoint", "select_multiple"}})

\* C8: for a survey whose names are unique within their enclosing group, the
\* flattened paths are pairwise distinct, four per geopoint and one per other
\* leaf, and the schema map has 4 * geopoints + select_multiples + other
\* leaves entries.
C8_DistinctPaths ==
    (headers # <<>> /\ UniqueNames) =>
        /\ \A i, j \in 1..Len(cols) : i # j => cols[i].path # cols[j].path
        /\ Len(cols) = 4 * LeavesOfType({"geopoint"}) + LeavesOfType({"select_multiple"})
                         + OtherLeaves
        /\ Len(schema_map) = Len(cols)

\* the number of positions of a sequence that hold x
Occurrences(q, x) == Cardinality({i \in 1..Len(q) : q[i] = x})

\* C11: the template's columns are the flattened paths in survey order, then
\* the reserved system columns "meta/instanceID", "_uuid", "_id"; each of the
\* three is a column exactly once; none of the three is a key of the schema map.
C11_TemplateAndSchemaMap ==
    headers # <<>> =>
        /\ Len(headers) >= Len(cols)
        /\ \A i \in 1..Len(cols) : headers[i] = cols[i].path
        /\ \A i \in (Len(cols) + 1)..Len(headers) :
              headers[i] \in {<<"meta", "/", "instanceID">>, <<"_", "uuid">>, <<"_", "id">>}
        /\ \A c \in {<<"meta", "/", "instanceID">>, <<"_", "uuid">>, <<"_", "id">>} :
              /\ Occurrences(headers, c) = 1
              /\ \A i \in 1..Len(schema_map) : schema_map[i].path # c

----------------------------------------------------------------------------
(* Claims about edit mode *)

\* the deprecatedID elements of a document
DeprecatedIdElements(doc) == {n \in 1..Len(doc) : doc[n].tag = TagDeprecatedID}

\* C12: in edit mode a row is posted only if get_submission_id resolved an ID
\* for it and the ID is in the existing-ID set, and the deprecated ID in the
\* posted document is that ID and no other; a row without a resolved ID or
\* with an unknown one is not posted and is recorded as skipped with a reason;
\* every row gets its record in turn.
C12_PostOnlyResolvedKnown ==
    /\ \A k \in 1..Len(results) : results[k].row = k
    /\ \A k \in 1..Len(posted) :
          LET target == GetSubmissionId(RowOf(df, posted[k].row), id_map)
          IN  /\ posted[k].row \in 1..Len(results)
              /\ IsTruthy(target) /\ target.s \in existing_ids
              /\ DeprecatedIdElements(posted[k].xml) # {}
              /\ \A n \in DeprecatedIdElements(posted[k].xml) :
                    posted[k].xml[n].text = target
    /\ \A k \in 1..Len(results) :
          LET target == GetSubmissionId(RowOf(df, k), id_map)
          IN  (~IsTruthy(target) \/ target.s \notin existing_ids) =>
                  /\ results[k].status = "Skipped"
                  /\ results[k].detail \in {"No target ID", "ID not found"}
                  /\ \A j \in 1..Len(posted) : posted[j].row # k

\* the prefixed form of a non-blank text
Prefixed(v) ==
    IF StartsWith(Strip(v), UuidPrefix) THEN Strip(v) ELSE UuidPrefix \o Strip(v)

\* what C13 says of one run of normalize_update_ids, from table d to table e
\* with flags f
C13_Holds(d, e, f) ==
    LET names == [k \in 1..Len(d.columns) |-> Strip(d.columns[k])]
        had == \E k \in 1..Len(names) : names[k] = ColInstanceID
        cands == {k \in 1..Len(Candidates) : \E j \in 1..Len(names) : names[j] = Candidates[k]}
        first == CHOOSE k \in cands : \A j \in cands : k <= j
        src == CHOOSE j \in 1..Len(names) : names[j] = Candidates[first]
        inst == CHOOSE j \in 1..Len(e.columns) : e.columns[j] = ColInstanceID
    IN  /\ f.created_from_uuid <=> (~had /\ cands # {})
        /\ f.standardized_prefix <=> (\E j \in 1..Len(e.columns) : e.columns[j] = ColInstanceID)
        /\ Len(e.rows) = Len(d.rows)
        /\ \A r \in 1..Len(d.rows), j \in 1..Len(names) :
              names[j] # ColInstanceID => e.rows[r][j] = d.rows[r][j]
        /\ f.created_from_uuid =>
              /\ e.columns = Append(names, ColInstanceID)
              /\ \A r \in 1..Len(d.rows) :
                    Supplied(d.rows[r][src]) =>
                        e.rows[r][inst] = StrV(Prefixed(d.rows[r][src].s))
        /\ (had /\ f.standardized_prefix) =>
              /\ e.columns = names
              /\ \A r \in 1..Len(d.rows) :
                    Supplied(d.rows[r][inst]) =>
                        e.rows[r][inst] = StrV(Prefixed(d.rows[r][inst].s))
        /\ f.standardized_prefix =>
              \A r \in 1..Len(e.rows) :
                  (e.rows[r][inst].kind = "str" /\ e.rows[r][inst].s # <<>>) =>
                      StartsWith(e.rows[r][inst].s, UuidPrefix)
        /\ (~had /\ cands = {}) =>
              /\ e.columns = names /\ e.rows = d.rows
              /\ ~f.created_from_uuid /\ ~f.standardized_prefix

\* C13: normalize_update_ids sets created_from_uuid exactly when the table,
\* its column names trimmed, has no "meta/instanceID" column but a candidate
\* column, and then adds "meta/instanceID" from the first candidate of the
\* list that is present; it sets standardized_prefix exactly when the result
\* has a "meta/instanceID" column, whose values are then in prefixed form;
\* with neither column the table gets no column and both flags are false.
C13_BulkNormalization ==
    [][HandleFileUpload => C13_Holds(df, df', info')]_vars

\* C13 witness: a table with the candidates "_uuid" and "instanceID", in that
\* column order, got "meta/instanceID" from "instanceID", the earlier one in
\* the list
C13_Witness ==
    /\ info # NoInfo /\ info.created_from_uuid /\ info.standardized_prefix
    /\ df.columns = <<ColUuid, <<"instanceID">>, ColInstanceID>>
    /\ \E r \in 1..Len(df.rows) :
          df.rows[r] = <<StrV(<<"z">>), StrV(<<"x">>), StrV(<<"uuid:", "x">>)>>

\* the bare token of an identifier text: trimmed, without its prefix
BareToken(v) ==
    IF StartsWith(Strip(v), UuidPrefix) THEN SubSeq(Strip(v), 2, Len(Strip(v))) ELSE Strip(v)

\* C14: the set build_existing_id_set returns holds the prefixed and the bare
\* form of every known canonical instance ID, whichever form the table
\* carries ("uuid:xyz" and "xyz" for "uuid:xyz"), and nothing else; without a
\* table, or with an empty one, it is empty.
C14_BothForms ==
    idx = 1 =>
        /\ existing_ids =
              UNION {{UuidPrefix \o BareToken(id_map.recs[i].instanceID.s),
                      BareToken(id_map.recs[i].instanceID.s)} :
                        i \in {j \in 1..Len(id_map.recs) :
                                  id_map.recs[j].instanceID.kind = "str"}}
        /\ (\E i \in 1..Len(id_map.recs) :
               id_map.recs[i].instanceID = StrV(<<"uuid:", "xyz">>)) =>
                   {<<"uuid:", "xyz">>, <<"xyz">>} \subseteq existing_ids
        /\ (~id_map.present \/ id_map.recs = <<>>) => existing_ids = {}

\* C14 witness: a table carrying the bare "xyz" and the padded " uuid:w "
\* gives both forms of both
C14_Witness ==
    /\ idx = 1
    /\ id_map.present /\ Len(id_map.recs) = 2
    /\ id_map.recs[1].instanceID = StrV(<<"xyz">>)
    /\ id_map.recs[2].instanceID = StrV(<<" ", "uuid:", "w", " ">>)
    /\ existing_ids = {<<"uuid:", "xyz">>, <<"xyz">>, <<"uuid:", "w">>, <<"w">>}

\* what C16 says of one run of normalize_update_ids, from table d to table e,
\* with the known records idm
C16_Holds(d, e, idm) ==
    \A r \in 1..Len(d.rows), j \in 1..Len(d.columns) :
        (Strip(d.columns[j]) = ColInstanceID /\ ~Supplied(d.rows[r][j])) =>
            LET after == RowOf(e, r)
                uuid == RowGet(after, ColUuid)
                id == RowGet(after, ColId)
                hits == IF HasId(id) THEN RecordsWithId(idm, id) ELSE {}
                target == GetSubmissionId(after, idm)
            IN  /\ ~Supplied(after[ColInstanceID])
                /\ IF Supplied(uuid) THEN target = StrV(Prefixed(uuid.s))
                   ELSE IF Cardinality(hits) = 1
                   THEN \E i \in hits : target = idm.recs[i].instanceID
                   ELSE ~IsTruthy(target)

\* C16: a row whose "meta/instanceID" cell has no value (missing or blank) in
\* the uploaded table has no value there after normalize_update_ids, and
\* get_submission_id then goes by the row's "_uuid", then by its "_id".
C16_MissingStaysMissing ==
    [][HandleFileUpload => C16_Holds(df, df', id_map)]_vars

----------------------------------------------------------------------------
(* Claims about malformed schemas *)

Opens(q) == q.type \in {"begin_group", "begin_repeat"}
Closes(q) == q.type \in {"end_group", "end_repeat"}
CountIn(a, b, P(_)) == Cardinality({k \in a..b : P(survey[k])})

\* the begin marker at j is still open when node i is met: no close marker
\* between them finds every group opened after j already closed
OpenAt(j, i) ==
    /\ j < i /\ Opens(survey[j])
    /\ \A k \in (j + 1)..(i - 1) : CountIn(j + 1, k, Closes) <= CountIn(j + 1, k, Opens)

\* the names of the groups open at node i, in opening order; a begin marker
\* without a name counts as "group"
OpenNames(i) ==
    LET open == SelectSeq([j \in 1..(i - 1) |-> j], LAMBDA j : OpenAt(j, i))
    IN  [k \in 1..Len(open) |->
            IF survey[open[k]].name.kind = "str" THEN survey[open[k]].name.s ELSE <<"group">>]

\* a node that gives columns: no group marker, and a name that neither is
\* missing or empty nor starts with an underscore
Emits(q) ==
    /\ ~Opens(q) /\ ~Closes(q)
    /\ q.name.kind = "str" /\ q.name.s # <<>> /\ q.name.s[1] # "_"

\* the path of the leaf at node i: the open groups' names, then its own
LeafPath(i) ==
    LET names == Append(OpenNames(i), survey[i].name.s)
        slashed == [k \in 1..(2 * Len(names) - 1) |->
                       IF k % 2 = 1 THEN names[(k + 1) \div 2] ELSE <<"/">>]
        RECURSIVE Concat(_)
        Concat(q) == IF q = <<>> THEN <<>> ELSE Head(q) \o Concat(Tail(q))
    IN  Concat(slashed)

\* the paths of the columns the first n nodes give
RECURSIVE PathsUpTo(_)
PathsUpTo(n) ==
    IF n = 0 THEN <<>>
    ELSE PathsUpTo(n - 1) \o
         (IF ~Emits(survey[n]) THEN <<>>
          ELSE IF survey[n].type = "geopoint"
          THEN <<LeafPath(n) \o <<"_", "latitude">>, LeafPath(n) \o <<"_", "longitude">>,
                 LeafPath(n) \o <<"_", "altitude">>, LeafPath(n) \o <<"_", "precision">>>>
          ELSE <<LeafPath(n)>>)

====
